---------------------------- MODULE Spec2Model ----------------------------
(***************************************************************************)
(* A model of pypath/inputs/kegg_api.py: the raw client (_kegg_general),   *)
(* the entity caches (_KeggDatabase and its subclasses), the conversion    *)
(* caches (_ConversionTable and its subclasses), the relation resolver     *)
(* (_kegg_relations) and the drug-drug interaction aggregator              *)
(* (drug_to_drug).                                                         *)
(*                                                                         *)
(* Strings are sequences of tokens: a token is a run of letters, a run of  *)
(* digits or one punctuation character.  "path:hsa04110" is                *)
(* <<"path", ":", "hsa", "04110">>.  split, rsplit, strip, join and the    *)
(* pathway regular expression are computed on these sequences.             *)
(*                                                                         *)
(* Reading conventions.  The module text holds statements that cannot be   *)
(* executed by any call (a name that is not bound, a call with the wrong   *)
(* number of arguments, a coroutine that is never awaited, an abstract     *)
(* class that is instantiated).  Such a statement is read as the call its  *)
(* text plainly denotes, and each place is marked "reading:" below.  Every *)
(* behaviour that depends on the data (a missing key, a short row, a       *)
(* failed response, the class-level table shared by the conversion         *)
(* caches, the None a lookup returns) is modelled as coded.                *)
(***************************************************************************)
EXTENDS Naturals, Sequences, FiniteSets, TLC

(***************************************************************************)
(* Bounds of the model.                                                    *)
(***************************************************************************)
\* the largest number of rows of the link relation and of the interaction
\* table of the remote service
MaxRows == 2
\* the number of calls one caller makes in a behaviour
MaxCalls == 2

(***************************************************************************)
(* Python values.                                                          *)
(***************************************************************************)
\* dict.get(k, None): an optional string
NoneName == [none |-> TRUE, val |-> <<>>]
Str(s) == [none |-> FALSE, val |-> s]
\* the value of a cross-reference field: None, the empty tuple (), or a set
NoneIds == [kind |-> "None", ids |-> {}]
EmptyTuple == [kind |-> "tuple", ids |-> {}]
IdSet(S) == [kind |-> "set", ids |-> S]

\* the dict with no key
EmptyDict == [k \in {} |-> <<>>]

(***************************************************************************)
(* str.split(sep), str.join, on token sequences.                           *)
(***************************************************************************)
RECURSIVE Split(_, _)
Split(s, sep) ==
    IF s = <<>> THEN << <<>> >>
    ELSE LET rest == Split(Tail(s), sep)
         IN  IF Head(s) = sep
             THEN << <<>> >> \o rest
             ELSE << <<Head(s)>> \o Head(rest) >> \o Tail(rest)

RECURSIVE Join(_, _)
Join(fields, sep) ==
    IF fields = <<>> THEN <<>>
    ELSE IF Len(fields) = 1 THEN Head(fields)
    ELSE Head(fields) \o <<sep>> \o Join(Tail(fields), sep)

Last(seq) == seq[Len(seq)]

Range(seq) == { seq[k] : k \in 1..Len(seq) }

\* str.strip(' ')
RECURSIVE LStrip(_)
LStrip(s) == IF s # <<>> /\ Head(s) = " " THEN LStrip(Tail(s)) ELSE s
RECURSIVE RStrip(_)
RStrip(s) ==
    IF s # <<>> /\ Last(s) = " " THEN RStrip(SubSeq(s, 1, Len(s) - 1)) ELSE s
Strip(s) == RStrip(LStrip(s))

\* every sequence that lists the elements of a finite set once
RECURSIVE Orderings(_)
Orderings(S) ==
    IF S = {} THEN { <<>> }
    ELSE UNION { { <<x>> \o o : o \in Orderings(S \ {x}) } : x \in S }

(***************************************************************************)
(* The raw client.                                                         *)
(***************************************************************************)
\* url = '/'.join([_url % operation] + arguments): the request a fetch sends
Request(operation, arguments) == [op |-> operation, args |-> arguments]

\* c.result of the transport: None after a failed transfer, else the lines
FailedResponse == [ok |-> FALSE, lines |-> <<>>]
Response(lines) == [ok |-> TRUE, lines |-> lines]

\* lines = getattr(c, 'result', []) or []
\* return [line.split('\t') for line in lines if line]
RECURSIVE SplitLines(_)
SplitLines(lines) ==
    IF lines = <<>> THEN <<>>
    ELSE (IF Head(lines) # <<>> THEN << Split(Head(lines), "\t") >> ELSE <<>>)
         \o SplitLines(Tail(lines))

\* a client that makes a row of every line, blank or not
_kegg_general_every_line(response) ==
    LET lines == IF response.ok THEN response.lines ELSE <<>>
    IN  [k \in 1..Len(lines) |-> Split(lines[k], "\t")]

\* reading: the coroutine is awaited, _async is the parameter async_
_kegg_general(response) ==
    LET lines == IF response.ok THEN response.lines ELSE <<>>
    IN  SplitLines(lines)


\* common.to_list on an optional string: [] for None, [x] for a string
to_list(x) == IF x = "None" THEN <<>> ELSE <<x>>

\* reading: the conditional expressions bind tighter than the list sums, so
\* as written the request of every database but brite loses 'list' and the
\* database name; it is read as
\* ['list', database] + (option if brite) + (organism if pathway)
_kegg_list(database, option, organism) ==
    Request("list",
            <<database>>
            \o (IF database = "brite" THEN to_list(option) ELSE <<>>)
            \o (IF database = "pathway" THEN to_list(organism) ELSE <<>>))

\* a link request that names the source first
_kegg_link_source_first(source_db, target_db) ==
    Request("link", <<source_db, target_db>>)

\* _kegg_general('link', target_db, source_db)
_kegg_link(source_db, target_db) == Request("link", <<target_db, source_db>>)

(***************************************************************************)
(* The entity caches: _KeggDatabase and its subclasses.                    *)
(***************************************************************************)
\* the tokens that are runs of digits
DigitRuns == {"04110", "05200", "10458", "10459", "00001", "00002", "00003"}

\* _re_pathway.search(entry[0]): the first run of digits, <<>> for no match
RECURSIVE SearchDigits(_)
SearchDigits(s) ==
    IF s = <<>> THEN <<>>
    ELSE IF Head(s) \in DigitRuns THEN <<Head(s)>>
    ELSE SearchDigits(Tail(s))

SplitClasses == {"_Disease", "_Drug", "_Compound"}

\* whether proc_key raises: pathway_id is None, or split(':') has one part
proc_key_raises(cls, entry) ==
    CASE cls = "_Pathway" -> SearchDigits(entry[1]) = <<>>
      [] cls \in SplitClasses -> Len(Split(entry[1], ":")) < 2
      [] OTHER -> FALSE

\* _Gene: entry[0]; _Pathway: f'map{digits}'; _SplitDatabase:
\* entry[0].split(':')[1]
proc_key(cls, entry) ==
    CASE cls = "_Pathway" -> <<"map">> \o SearchDigits(entry[1])
      [] cls \in SplitClasses -> Split(entry[1], ":")[2]
      [] OTHER -> entry[1]

\* whether proc_value raises: entry[1] of a row of one field
proc_value_raises(cls, entry) ==
    IF cls = "_Gene" THEN FALSE ELSE Len(entry) < 2

\* _Gene: entry[-1].rsplit(';', maxsplit = 1)[-1].strip(' '); else entry[1]
proc_value(cls, entry) ==
    IF cls = "_Gene"
    THEN Strip(Last(Split(Last(entry), ";")))
    ELSE entry[2]

\* self.load(*args): the request of the constructor of class cls
\* _Gene has no _query_args, so its database is the organism
load_request(cls, organism) ==
    CASE cls = "_Gene" -> _kegg_list(organism, "None", "None")
      [] cls = "_Pathway" -> _kegg_list("pathway", organism, "None")
      [] cls = "_Disease" -> _kegg_list("disease", organism, "None")
      [] cls = "_Drug" -> _kegg_list("drug", organism, "None")
      [] OTHER -> _kegg_list("compound", organism, "None")

load_raises(cls, entries) ==
    \E i \in 1..Len(entries) :
        proc_key_raises(cls, entries[i]) \/ proc_value_raises(cls, entries[i])

\* a comprehension where an earlier row is kept
RECURSIVE load_into_keep_first(_, _, _)
load_into_keep_first(cls, entries, d) ==
    IF entries = <<>> THEN d
    ELSE load_into_keep_first(cls, Tail(entries),
                   d @@ (proc_key(cls, Head(entries))
                             :> proc_value(cls, Head(entries))))

\* the dict comprehension of load: a later row replaces an earlier one
RECURSIVE load_into(_, _, _)
load_into(cls, entries, d) ==
    IF entries = <<>> THEN d
    ELSE load_into(cls, Tail(entries),
                   (proc_key(cls, Head(entries))
                        :> proc_value(cls, Head(entries))) @@ d)

\* reading: the subclasses are instantiated although __init__ and load stay
\* abstract
load(cls, entries) == load_into(cls, entries, EmptyDict)

\* _KeggDatabase.get(index, default = None)
db_get(d, index) == IF index \in DOMAIN d THEN Str(d[index]) ELSE NoneName

(***************************************************************************)
(* The conversion caches.                                                  *)
(***************************************************************************)
\* the unpacking "for source, target in result" and the split(':')[1]
_kegg_conv_raises(result, source_split, target_split) ==
    \E i \in 1..Len(result) :
        \/ Len(result[i]) # 2
        \/ source_split /\ Len(Split(result[i][1], ":")) < 2
        \/ target_split /\ Len(Split(result[i][2], ":")) < 2

\* conversion_table[source].add(target), conversion_table a defaultdict(set)
RECURSIVE conv_into(_, _, _, _)
conv_into(result, source_split, target_split, table) ==
    IF result = <<>> THEN table
    ELSE LET row == Head(result)
             source == IF source_split THEN Split(row[1], ":")[2] ELSE row[1]
             target == IF target_split THEN Split(row[2], ":")[2] ELSE row[2]
             old == IF source \in DOMAIN table THEN table[source] ELSE {}
         IN  conv_into(Tail(result), source_split, target_split,
                       (source :> (old \cup {target})) @@ table)

_kegg_conv(result, source_split, target_split) ==
    conv_into(result, source_split, target_split, EmptyDict)

\* dict.update: the keys of the argument replace those of the receiver
Update(table, other) == other @@ table

\* a get that answers an absent key with the empty set
table_get_empty_set(table, index) ==
    IF index \in DOMAIN table THEN IdSet(table[index]) ELSE IdSet({})

\* _ConversionTable.get: self._table[index], None on KeyError
table_get(table, index) ==
    IF index \in DOMAIN table THEN IdSet(table[index]) ELSE NoneIds

\* the conv request of each conversion class
conv_request(cls, organism) ==
    CASE cls = "_KeggToNcbi" -> Request("conv", <<"ncbi-geneid", organism>>)
      [] cls = "_KeggToUniprot" -> Request("conv", <<"uniprot", organism>>)
      [] OTHER -> Request("conv", <<"chebi", "drug">>)

\* the conversion table a class downloads from the rows of its response
download_table(cls, result) ==
    IF cls = "_KeggToChebi" THEN _kegg_conv(result, TRUE, TRUE)
    ELSE _kegg_conv(result, FALSE, TRUE)

download_raises(cls, result) ==
    IF cls = "_KeggToChebi" THEN _kegg_conv_raises(result, TRUE, TRUE)
    ELSE _kegg_conv_raises(result, FALSE, TRUE)

\* the missing method handle of the entity caches: the namespace prefix
\* before the colon is stripped, ns:id becomes id
handle(entry) ==
    LET parts == Split(entry, ":")
    IN  IF Len(parts) < 2 THEN entry ELSE Join(Tail(parts), ":")


(***************************************************************************)
(* The remote service.  Its underlying link relation is chosen when a      *)
(* behaviour starts; its list and conv tables are the ones below.  Each    *)
(* response lists the rows in an order the service chooses, ends with a    *)
(* blank line, and may be a failed transfer (result None).                 *)
(***************************************************************************)
Organisms == {"hsa"}

Gene(o, n) == <<o, ":", n>>
PathHsa == <<"path", ":", "hsa", "04110">>
PathMap == <<"path", ":", "map", "04110">>
PathMap2 == <<"path", ":", "map", "05200">>
Drug1 == <<"dr", ":", "D", "00001">>
Drug2 == <<"dr", ":", "D", "00002">>
Compound3 == <<"cpd", ":", "C", "00003">>

\* an edge of the link relation: the raw identifier it has in each database
Edges ==
    { ("hsa" :> Gene("hsa", "10458") @@ "pathway" :> PathHsa),
      ("hsa" :> Gene("hsa", "10459") @@ "pathway" :> PathMap),
      ("hsa" :> Gene("hsa", "10459") @@ "drug" :> Drug1),
      ("pathway" :> PathMap2 @@ "drug" :> Drug2),
      ("pathway" :> PathMap @@ "drug" :> Drug1) }

Relations == { R \in SUBSET Edges : Cardinality(R) <= MaxRows }

\* the rows of the list and conv tables of the service
ServiceRows(request) ==
    CASE request = Request("list", <<"hsa">>) ->
           { << Gene("hsa", "10458"), <<"CDS">>,
                <<"BAIAP2", ";", " ", "adaptor", " ">> >>,
             << <<"10459">>, <<"CDS">>, <<"BAIAP2L1", ";", " ", "like">> >> }
      [] request = Request("list", <<"pathway">>) ->
           { << PathMap, <<"Cell cycle">> >>,
             << PathHsa, <<"Cell cycle", " ", "human">> >> }
      [] request = Request("list", <<"drug">>) ->
           { << Drug1, <<"Aspirin">> >>, << Drug2, <<"Warfarin">> >> }
      [] request = Request("list", <<"compound">>) ->
           { << Compound3, <<"Caffeine">> >> }
      [] request = Request("conv", <<"ncbi-geneid", "hsa">>) ->
           { << <<"10458">>, <<"ncbi-geneid", ":", "10458">> >>,
             << <<"10458">>, <<"ncbi-geneid", ":", "10459">> >> }
      [] request = Request("conv", <<"uniprot", "hsa">>) ->
           { << <<"10459">>, <<"up", ":", "Q9UQB8">> >>,
             << <<"10458">>, <<"up", ":", "P12345">> >> }
      [] request = Request("conv", <<"chebi", "drug">>) ->
           { << Drug1, <<"chebi", ":", "15365">> >> }
      [] request = Request("list", <<"mmu">>) ->
           { << Gene("mmu", "10459"), <<"CDS">>, <<"Baiap2l1", ";", " ", "like">> >> }
      [] request = Request("conv", <<"ncbi-geneid", "mmu">>) ->
           { << <<"10459">>, <<"ncbi-geneid", ":", "66898">> >> }
      [] request = Request("conv", <<"uniprot", "mmu">>) ->
           { << <<"10459">>, <<"up", ":", "Q91X43">> >> }
      [] OTHER -> {}

\* the rows of link/<target_db>/<source_db>: (source entry, target entry)
LinkRows(R, request) ==
    LET target_db == request.args[1]
        source_db == request.args[2]
    IN  { <<e[source_db], e[target_db]>> :
            e \in { f \in R : DOMAIN f = {source_db, target_db} } }

\* a response as the transport returns it: one line per row, fields joined
\* by tabs, and a final blank line
Lines(rows) == [i \in 1..Len(rows) |-> Join(rows[i], "\t")] \o << <<>> >>

\* the rows, or the rows with one of them cut to its first field
Truncations(rows) ==
    {rows} \cup { [rows EXCEPT ![j] = <<rows[j][1]>>] : j \in 1..Len(rows) }

Responses(R, request) ==
    {FailedResponse} \cup
    IF request.op = "link"
    THEN { Response(Lines(rows)) :
             rows \in UNION { Truncations(o) :
                                o \in Orderings(LinkRows(R, request)) } }
    ELSE { Response(Lines(rows)) : rows \in Orderings(ServiceRows(request)) }

\* the rows the interaction table of the service may hold: (entry, entry,
\* labels, ...)
DdiRows ==
    { << Drug1, Drug2, <<"CI", ",", "P">> >>,
      << Drug1, Compound3, <<>> >>,
      << Drug2, Drug1, <<"P">> >>,
      << <<"cpd", ":", "D", "00001">>, Drug2, <<"CI">> >>,
      << <<"br", ":", "08303">>, Drug1, <<"P">> >> }

RECURSIVE SeqsUpTo(_, _)
SeqsUpTo(S, n) ==
    IF n = 0 THEN { <<>> }
    ELSE LET shorter == SeqsUpTo(S, n - 1)
         IN  shorter \cup { Append(s, x) : s \in shorter, x \in S }

DdiTables == SeqsUpTo(DdiRows, MaxRows)

\* the rows of ddi/<ids>: for one identifier its interactions, for several
\* joined by '+' the interactions among them, in the order of the table
RECURSIVE DdiAnswer(_, _)
DdiAnswer(table, ids) ==
    IF table = <<>> THEN <<>>
    ELSE LET row == Head(table)
             named(entry) == Last(Split(entry, ":")) \in ids
         IN  (IF named(row[1]) /\ (Cardinality(ids) = 1 \/ named(row[2]))
              THEN <<row>> ELSE <<>>)
             \o DdiAnswer(Tail(table), ids)

\* the transfer of a ddi request fails when it names an identifier the
\* service fails on
DdiResponses(table, failing, request) ==
    LET ids == Range(Split(request.args[1], "+"))
    IN  IF ids \cap failing # {}
        THEN {FailedResponse}
        ELSE {Response(Lines(DdiAnswer(table, ids)))}


(***************************************************************************)
(* The drug-drug interaction aggregator, drug_to_drug: the loop over the   *)
(* rows _kegg_ddi returned.                                                *)
(***************************************************************************)
\* entry[i][0].lower(): the first character of a string, in lower case
FirstCharLower(s) ==
    CASE s[1] \in {"dr", "d", "D"} -> "d"
      [] s[1] \in {"cpd", "c", "C"} -> "c"
      [] OTHER -> "b"

\* entry_types.get(character, None)
entry_types_get(character) ==
    CASE character = "d" -> "drug"
      [] character = "c" -> "compound"
      [] OTHER -> "None"

\* a partner whose identifier is lost
partner_without_id(entry, entry_dbs) ==
    LET type_ == entry_types_get(FirstCharLower(entry))
    IN  [type |-> type_, id |-> <<>>, name |-> NoneName]

\* the dict of one role of partners
\* reading: entry_dbs[entry_type].get(entry_id, None) names the 'type' and
\* the 'id' of the same dict
partner(entry, entry_dbs) ==
    LET type_ == entry_types_get(FirstCharLower(entry))
        id_ == Last(Split(entry, ":"))
    IN  [type |-> type_, id |-> id_, name |-> db_get(entry_dbs[type_], id_)]

\* whether the body of the loop raises on a row: entry[1] or entry[2] past
\* the end, or entry_dbs[None]
row_raises(entry) ==
    \/ Len(entry) < 3
    \/ \E i \in 1..2 : entry_types_get(FirstCharLower(entry[i])) = "None"

\* a row whose two flags are read from each other's label
Interaction_flags_swapped(entry, entry_dbs) ==
    LET target == partner(entry[2], entry_dbs)
        labels == Range(Split(entry[3], ","))
    IN  [type |-> target.type, id |-> target.id, name |-> target.name,
         contraindication |-> <<"P">> \in labels,
         precaution |-> <<"CI">> \in labels]

\* labels = entry[2].split(','); 'CI' in labels; 'P' in labels; and the
\* namedtuple Interaction of the target
Interaction(entry, entry_dbs) ==
    LET target == partner(entry[2], entry_dbs)
        labels == Range(Split(entry[3], ","))
    IN  [type |-> target.type, id |-> target.id, name |-> target.name,
         contraindication |-> <<"CI">> \in labels,
         precaution |-> <<"P">> \in labels]

\* a loop that sets the type and the name of an owner only once
RECURSIVE aggregate_keep_first(_, _, _)
aggregate_keep_first(entries, entry_dbs, acc) ==
    IF entries = <<>> THEN acc
    ELSE LET entry == Head(entries)
             source == partner(entry[1], entry_dbs)
             seen == source.id \in DOMAIN acc
         IN  aggregate_keep_first(Tail(entries), entry_dbs,
                 (source.id :>
                    [type |-> IF seen THEN acc[source.id].type ELSE source.type,
                     name |-> IF seen THEN acc[source.id].name ELSE source.name,
                     interactions |->
                         Append(IF seen THEN acc[source.id].interactions
                                ELSE <<>>,
                                Interaction(entry, entry_dbs))])
                 @@ acc)

\* the three assignments on interactions[disease_id]
\* reading: interactions[disease_id]['interactions'] is a list
RECURSIVE aggregate(_, _, _)
aggregate(entries, entry_dbs, acc) ==
    IF entries = <<>> THEN acc
    ELSE LET entry == Head(entries)
             source == partner(entry[1], entry_dbs)
             old == IF source.id \in DOMAIN acc
                    THEN acc[source.id].interactions ELSE <<>>
         IN  aggregate(Tail(entries), entry_dbs,
                       (source.id :>
                          [type |-> source.type, name |-> source.name,
                           interactions |->
                               Append(old, Interaction(entry, entry_dbs))])
                       @@ acc)

drug_to_drug_raises(entries) ==
    \E k \in 1..Len(entries) : row_raises(entries[k])

\* the dict drug_to_drug returns for the rows of _kegg_ddi
drug_to_drug_rows(entries, entry_dbs) == aggregate(entries, entry_dbs, EmptyDict)

\* drug_ids = '+'.join(common.to_list(drug_ids)), then one request for each
\* drug_id in common.to_list(drug_ids): a string is one element
_kegg_ddi(drug_ids) == << Request("ddi", << Join(drug_ids, "+") >>) >>

(***************************************************************************)
(* The relation resolver, _kegg_relations.  A caller runs one call at a    *)
(* time; a call blocks at each remote fetch, and these are its only steps. *)
(***************************************************************************)
VARIABLES
    relation,       \* the link relation of the remote service
    pc,             \* per caller: off, idle, link, run, wait, done, raised
    call,           \* per caller: source_db, target_db, organism
    entries,        \* per caller: the rows _kegg_link returned
    cursor,         \* per caller: the row, side and locals of process
    data,           \* per caller: the dict data of the call, name -> instance
    interactions,   \* per caller: the pairs built so far, the result at done
    log,            \* per caller: the requests the call has sent, in order
    inflight,       \* the requests sent and not yet answered
    _table,         \* the class attribute _ConversionTable._table
    ncalls,         \* per caller: the calls started
    served,         \* per caller: what the transport answered to each build
    prev,           \* per caller: the returned call before this one, if its reverse
    ddi_table,      \* the interaction table of the remote service
    failing,        \* the drug identifiers whose ddi requests fail
    dpc,            \* drug_to_drug: off, idle, drug, compound, ddi, done, raised
    dcall,          \* the locals drugs, join, asynchronous of drug_to_drug
    entry_dbs,      \* the dict entry_dbs of drug_to_drug
    tasks,          \* the requests of _kegg_ddi, and whether each is pending
    ddi_entries,    \* the rows _kegg_ddi has collected
    profiles,       \* the dict drug_to_drug returns
    dlog,           \* the requests drug_to_drug has sent, in order
    curl_result,    \* one fetch of a list: c.result of the transport
    general_rows,   \* the rows _kegg_general returns for it
    built,          \* the entity cache loaded from these rows
    gpc             \* off, fetch, rows, loaded, raised

rvars == <<relation, pc, call, entries, cursor, data, interactions, log,
           inflight, _table, ncalls, served, prev>>

dvars == <<ddi_table, failing, dpc, dcall, entry_dbs, tasks, ddi_entries,
           profiles, dlog>>

gvars == <<curl_result, general_rows, built, gpc>>

vars == <<rvars, dvars, gvars>>

Callers == {1, 2}

Kinds == {"gene", "pathway", "drug"}

\* gene_to_pathway(organism) ... drug_to_pathway(): a gene side takes an
\* organism, the others take none
PublicCalls ==
    { sig \in [source_db : Kinds, target_db : Kinds,
               organism : Organisms \cup {"None"}] :
        /\ sig.source_db # sig.target_db
        /\ (sig.organism # "None") <=> ("gene" \in {sig.source_db, sig.target_db}) }

\* args = [organism if db == 'gene' else db for db in (source_db, target_db)]
link_args(sig) ==
    << IF sig.source_db = "gene" THEN sig.organism ELSE sig.source_db,
       IF sig.target_db = "gene" THEN sig.organism ELSE sig.target_db >>

\* cls = f'_{cls_prefix}{name.capitalize()}', for db(name) and ids(name)
ClassOf(name) ==
    CASE name = "gene" -> "_Gene"
      [] name = "pathway" -> "_Pathway"
      [] name = "drug" -> "_Drug"
      [] name = "ncbi" -> "_KeggToNcbi"
      [] name = "uniprot" -> "_KeggToUniprot"
      [] OTHER -> "_KeggToChebi"

ConversionClasses == {"_KeggToNcbi", "_KeggToUniprot", "_KeggToChebi"}
\* the subclasses of _OrgTable: download_table updates the class attribute
OrgTableClasses == {"_KeggToNcbi", "_KeggToUniprot"}

\* a get_data that builds the instance at every call
in_data_never(d, name) == FALSE

\* get_data: "if name not in data"
in_data(d, name) == name \in DOMAIN d

\* reading: locals()[cls](*l_organism) is the class of that name; the
\* organism is not passed to _KeggToChebi, whose constructor takes none
build_request(cls, organism) ==
    IF cls \in ConversionClasses THEN conv_request(cls, organism)
    ELSE load_request(cls, organism)

\* the namedtuple KeggEntry
record(id_, name, type_, ncbi, uniprot, chebi) ==
    [id |-> id_, name |-> name, type |-> type_, ncbi_gene_ids |-> ncbi,
     uniprot_ids |-> uniprot, chebi_ids |-> chebi]

NoRecord == record(<<>>, NoneName, "None", EmptyTuple, EmptyTuple, EmptyTuple)

InitCursor ==
    [i |-> 1, side |-> 1, stage |-> "db", id_ |-> <<>>, name |-> NoneName,
     ncbi |-> EmptyTuple, uniprot |-> EmptyTuple, chebi |-> EmptyTuple,
     first |-> NoRecord]

\* a process that asks ids('chebi') whatever the type
wants_chebi_always(type_, field) ==
    \/ field \in {"ncbi", "uniprot"} /\ type_ = "gene"
    \/ field = "chebi"

\* the conditions of process: ids('ncbi') and ids('uniprot') if type_ ==
\* 'gene', ids('chebi') if type_ == 'drug'
wants(type_, field) ==
    \/ field \in {"ncbi", "uniprot"} /\ type_ = "gene"
    \/ field = "chebi" /\ type_ = "drug"

\* the cache process asks for after the one of this stage, emit for none
next_stage(type_, stage) ==
    LET order == <<"db", "ncbi", "uniprot", "chebi">>
        at == CHOOSE k \in 1..4 : order[k] = stage
        later == { k \in (at + 1)..4 : wants(type_, order[k]) }
    IN  IF later = {} THEN "emit"
        ELSE order[CHOOSE k \in later : \A m \in later : k <= m]

\* the assignment of process at one stage, tbl the table of the instance
looked_up(cur, entry, tbl) ==
    CASE cur.stage = "db" ->
           [cur EXCEPT !.id_ = handle(entry),
                       !.name = db_get(tbl, handle(entry))]
      [] cur.stage = "ncbi" -> [cur EXCEPT !.ncbi = table_get(tbl, cur.id_)]
      [] cur.stage = "uniprot" ->
           [cur EXCEPT !.uniprot = table_get(tbl, cur.id_)]
      [] OTHER -> [cur EXCEPT !.chebi = table_get(tbl, cur.id_)]

\* the record process returns: a field it did not look up is ()
process(cur, type_) ==
    record(cur.id_, cur.name, type_,
           IF wants(type_, "ncbi") THEN cur.ncbi ELSE EmptyTuple,
           IF wants(type_, "uniprot") THEN cur.uniprot ELSE EmptyTuple,
           IF wants(type_, "chebi") THEN cur.chebi ELSE EmptyTuple)

\* reading: process(e[0]) is process(e[0], source_db), process(e[1]) is
\* process(e[1], target_db)
type_of(sig, side) == IF side = 1 THEN sig.source_db ELSE sig.target_db

\* a comprehension that resolves e[0] on both sides
entry_of_first(ents, i, side) == ents[i][1]

\* e[0] and e[1] of the row e = entries[i]
entry_of(ents, i, side) == ents[i][side]

\* a tuple with its two records exchanged
pair_swapped(source, target) == <<target, source>>

\* the tuple (process(e[0]), process(e[1]))
pair(source, target) == <<source, target>>

\* interactions = [(process(e[0]), process(e[1])) for e in entries], from
\* the lookup of one stage to the next fetch: e[1] of a row of one field
\* raises IndexError after process(e[0]) has run
resume(cur, sig, ents, inter, tbl) ==
    LET type_ == type_of(sig, cur.side)
        cur1 == looked_up(cur, entry_of(ents, cur.i, cur.side), tbl)
        nxt == next_stage(type_, cur1.stage)
        rec == process(cur1, type_)
    IN  IF nxt # "emit"
        THEN [cursor |-> [cur1 EXCEPT !.stage = nxt],
              interactions |-> inter, pc |-> "run"]
        ELSE IF cur1.side = 1
        THEN IF Len(ents[cur1.i]) < 2
             THEN [cursor |-> InitCursor, interactions |-> <<>>,
                   pc |-> "raised"]
             ELSE [cursor |-> [InitCursor EXCEPT !.i = cur1.i, !.side = 2,
                                                 !.first = rec],
                   interactions |-> inter, pc |-> "run"]
        ELSE IF cur1.i = Len(ents)
        THEN [cursor |-> InitCursor,
              interactions |-> Append(inter, pair(cur1.first, rec)),
              pc |-> "done"]
        ELSE [cursor |-> [InitCursor EXCEPT !.i = cur1.i + 1],
              interactions |-> Append(inter, pair(cur1.first, rec)),
              pc |-> "run"]

\* the name get_data is asked for at the caller's stage
stage_name(c) ==
    IF cursor[c].stage = "db" THEN type_of(call[c], cursor[c].side)
    ELSE cursor[c].stage

\* the table a lookup on an instance reads: the instance attribute, or the
\* class attribute when the instance has none
table_of(inst, shared) == IF inst.own THEN inst.table ELSE shared

\* the (source, target) identifiers of the pairs a call returned
IdPairs(inter) == { <<inter[k][1].id, inter[k][2].id>> : k \in 1..Len(inter) }

\* the call with source_db and target_db exchanged
Reverse(sig) == [sig EXCEPT !.source_db = sig.target_db,
                            !.target_db = sig.source_db]

\* prev remembers a returned call when the next call is its reverse
NoPrev == [call |-> [source_db |-> "None", target_db |-> "None",
                     organism |-> "None"], rows |-> {}, ids |-> {}]


\* _kegg_relations is called: data = {}, then entries = _kegg_link(*args)
CallOf(c, signatures) ==
    /\ pc[c] \in {"idle", "done", "raised"}
    /\ ncalls[c] < MaxCalls
    /\ \E sig \in signatures :
         LET args == link_args(sig)
             request == _kegg_link(args[1], args[2])
         IN  /\ call' = [call EXCEPT ![c] = sig]
             /\ log' = [log EXCEPT ![c] = <<request>>]
             /\ inflight' = inflight \cup {<<c, request>>}
             /\ prev' = [prev EXCEPT ![c] =
                           IF pc[c] = "done" /\ call[c] = Reverse(sig)
                           THEN [call |-> call[c], rows |-> Range(entries[c]),
                                 ids |-> IdPairs(interactions[c])]
                           ELSE NoPrev]
    /\ pc' = [pc EXCEPT ![c] = "link"]
    /\ entries' = [entries EXCEPT ![c] = <<>>]
    /\ cursor' = [cursor EXCEPT ![c] = InitCursor]
    /\ data' = [data EXCEPT ![c] = EmptyDict]
    /\ interactions' = [interactions EXCEPT ![c] = <<>>]
    /\ ncalls' = [ncalls EXCEPT ![c] = ncalls[c] + 1]
    /\ served' = [served EXCEPT ![c] = EmptyDict]
    /\ UNCHANGED <<relation, _table, dvars, gvars>>

\* a call of a public function on the organism hsa, or on no organism
Call(c) == CallOf(c, PublicCalls)

\* the link fetch returns; a call with no row returns []
LinkReturn(c) ==
    /\ pc[c] = "link"
    /\ \E response \in Responses(relation, log[c][1]) :
         LET rows == _kegg_general(response)
         IN  /\ entries' = [entries EXCEPT ![c] = rows]
             /\ pc' = [pc EXCEPT ![c] = IF rows = <<>> THEN "done" ELSE "run"]
    /\ inflight' = inflight \ {<<c, log[c][1]>>}
    /\ UNCHANGED <<relation, call, cursor, data, interactions, log, _table,
                   ncalls, served, prev, dvars, gvars>>

\* get_data finds the name in data: the lookup of the stage, and process
\* and the comprehension up to the next get_data
Lookup(c) ==
    /\ pc[c] = "run"
    /\ in_data(data[c], stage_name(c))
    /\ LET r == resume(cursor[c], call[c], entries[c], interactions[c],
                       table_of(data[c][stage_name(c)], _table))
       IN  /\ cursor' = [cursor EXCEPT ![c] = r.cursor]
           /\ interactions' = [interactions EXCEPT ![c] = r.interactions]
           /\ pc' = [pc EXCEPT ![c] = r.pc]
    /\ UNCHANGED <<relation, call, entries, data, log, inflight, _table,
                   ncalls, served, prev, dvars, gvars>>

\* get_data does not find the name: the constructor sends its request
Fetch(c) ==
    /\ pc[c] = "run"
    /\ ~ in_data(data[c], stage_name(c))
    /\ LET request == build_request(ClassOf(stage_name(c)), call[c].organism)
       IN  /\ log' = [log EXCEPT ![c] = Append(log[c], request)]
           /\ inflight' = inflight \cup {<<c, request>>}
    /\ pc' = [pc EXCEPT ![c] = "wait"]
    /\ UNCHANGED <<relation, call, entries, cursor, data, interactions,
                   _table, ncalls, served, prev, dvars, gvars>>

\* the instance the constructor of cls builds from the rows of its response
instance(cls, rows) ==
    IF cls \in OrgTableClasses
    THEN [cls |-> cls, own |-> FALSE, table |-> EmptyDict]
    ELSE IF cls = "_KeggToChebi"
    THEN [cls |-> cls, own |-> TRUE, table |-> download_table(cls, rows)]
    ELSE [cls |-> cls, own |-> TRUE, table |-> load(cls, rows)]

\* self._table.update(table) of the _OrgTable subclasses: the receiver is
\* the class attribute; _KeggToChebi binds an attribute of the instance
class_table_after(cls, rows, shared) ==
    IF cls \in OrgTableClasses
    THEN Update(shared, download_table(cls, rows))
    ELSE shared

build_raises(cls, rows) ==
    IF cls \in ConversionClasses THEN download_raises(cls, rows)
    ELSE load_raises(cls, rows)

\* the response of the constructor's request arrives: load or
\* download_table runs, data[name] is bound, and the call goes on
Build(c) ==
    /\ pc[c] = "wait"
    /\ \E response \in Responses(relation, Last(log[c])) :
         LET name == stage_name(c)
             cls == ClassOf(name)
             rows == _kegg_general(response)
             inst == instance(cls, rows)
             shared == class_table_after(cls, rows, _table)
             r == resume(cursor[c], call[c], entries[c], interactions[c],
                         table_of(inst, shared))
         IN  /\ served' = [served EXCEPT ![c] =
                            (name :> [ok |-> response.ok, rows |-> Range(rows)])
                            @@ served[c]]
             /\ IF build_raises(cls, rows)
                THEN /\ pc' = [pc EXCEPT ![c] = "raised"]
                     /\ interactions' = [interactions EXCEPT ![c] = <<>>]
                     /\ UNCHANGED <<cursor, data, _table>>
                ELSE /\ data' = [data EXCEPT ![c] = (name :> inst) @@ data[c]]
                     /\ _table' = shared
                     /\ cursor' = [cursor EXCEPT ![c] = r.cursor]
                     /\ interactions' =
                            [interactions EXCEPT ![c] = r.interactions]
                     /\ pc' = [pc EXCEPT ![c] = r.pc]
    /\ inflight' = inflight \ {<<c, Last(log[c])>>}
    /\ UNCHANGED <<relation, call, entries, log, ncalls, prev, dvars, gvars>>

Next == \E c \in Callers : Call(c) \/ LinkReturn(c) \/ Lookup(c) \/ Fetch(c) \/ Build(c)

Idle(active, started) ==
    /\ pc = [c \in Callers |-> IF c \in active THEN "idle" ELSE "off"]
    /\ call = [c \in Callers |-> NoPrev.call]
    /\ entries = [c \in Callers |-> <<>>]
    /\ cursor = [c \in Callers |-> InitCursor]
    /\ data = [c \in Callers |-> EmptyDict]
    /\ interactions = [c \in Callers |-> <<>>]
    /\ log = [c \in Callers |-> <<>>]
    /\ inflight = {}
    /\ _table = EmptyDict
    /\ ncalls = [c \in Callers |-> started]
    /\ served = [c \in Callers |-> EmptyDict]
    /\ prev = [c \in Callers |-> NoPrev]

NoDdiCall == [drugs |-> <<>>, join |-> FALSE, asynchronous |-> FALSE,
              absent |-> FALSE]

DdiIdle(state) ==
    /\ dpc = state
    /\ dcall = NoDdiCall
    /\ entry_dbs = [drug |-> EmptyDict, compound |-> EmptyDict]
    /\ tasks = <<>>
    /\ ddi_entries = <<>>
    /\ profiles = EmptyDict
    /\ dlog = <<>>

NoDdi ==
    /\ ddi_table = <<>>
    /\ failing = {}
    /\ DdiIdle("off")

NoBuilt == [cls |-> "None", table |-> EmptyDict]

NoClient ==
    /\ curl_result = FailedResponse
    /\ general_rows = <<>>
    /\ built = NoBuilt
    /\ gpc = "off"

\* one caller: the default, single-threaded execution
Init ==
    /\ relation \in Relations
    /\ Idle({1}, 0)
    /\ NoDdi
    /\ NoClient

Spec == Init /\ [][Next]_vars

\* two callers, threads of one process, each with its last call to make, on
\* a link relation of two rows between pathways and drugs
InitRace ==
    /\ relation \in { R \in Relations :
                        /\ Cardinality(R) = 2
                        /\ \A e \in R : DOMAIN e = {"pathway", "drug"} }
    /\ Idle({1, 2}, MaxCalls - 1)
    /\ NoDdi
    /\ NoClient

SpecRace == InitRace /\ [][Next]_vars

(***************************************************************************)
(* Calls on two organisms, one after the other.                            *)
(***************************************************************************)
ScopedOrganisms == {"hsa", "mmu"}

\* gene_to_pathway and pathway_to_gene on either organism
ScopedCalls ==
    { sig \in [source_db : {"gene", "pathway"}, target_db : {"gene", "pathway"},
               organism : ScopedOrganisms] : sig.source_db # sig.target_db }

CallScoped(c) == CallOf(c, ScopedCalls)

NextScopes ==
    \E c \in Callers :
        CallScoped(c) \/ LinkReturn(c) \/ Lookup(c) \/ Fetch(c) \/ Build(c)

\* a link relation with genes of both organisms in one pathway
InitScopes ==
    /\ relation = { ("hsa" :> Gene("hsa", "10458") @@ "pathway" :> PathMap),
                    ("hsa" :> Gene("hsa", "10459") @@ "pathway" :> PathMap),
                    ("mmu" :> Gene("mmu", "10459") @@ "pathway" :> PathMap) }
    /\ Idle({1}, 0)
    /\ NoDdi
    /\ NoClient

SpecScopes == InitScopes /\ [][NextScopes]_vars

(***************************************************************************)
(* drug_to_drug.  A call blocks at each remote fetch: the two list fetches *)
(* of the constructors in entry_dbs, then the fetches of _kegg_ddi.        *)
(***************************************************************************)
DrugId(n) == <<"D", n>>

\* the arguments of a call; None and the empty list are both falsy
DdiCalls ==
    [drugs : { <<>>, <<DrugId("00001")>>, <<DrugId("00001"), DrugId("00002")>> },
     join : BOOLEAN,
     asynchronous : BOOLEAN,
     absent : {FALSE}]

\* the tasks of a list of requests, none started
Tasks(requests) ==
    [k \in 1..Len(requests) |->
       [request |-> requests[k], pending |-> TRUE, inflight |-> FALSE]]

\* drug_to_drug is called: entry_dbs = {'drug': _Drug(), ...} starts with the
\* list request of _Drug
DrugToDrug ==
    /\ dpc = "idle"
    /\ \E args \in DdiCalls : dcall' = args
    /\ dlog' = << load_request("_Drug", "None") >>
    /\ dpc' = "drug"
    /\ UNCHANGED <<ddi_table, failing, entry_dbs, tasks, ddi_entries, profiles,
                   rvars, gvars>>

\* the list of _Drug arrives and is loaded; _Compound sends its request
DrugLoaded ==
    /\ dpc = "drug"
    /\ \E response \in Responses(relation, Last(dlog)) :
         LET rows == _kegg_general(response)
         IN  IF load_raises("_Drug", rows)
             THEN /\ dpc' = "raised"
                  /\ UNCHANGED <<entry_dbs, dlog>>
             ELSE /\ entry_dbs' = [entry_dbs EXCEPT !.drug = load("_Drug", rows)]
                  /\ dlog' = Append(dlog, load_request("_Compound", "None"))
                  /\ dpc' = "compound"
    /\ UNCHANGED <<ddi_table, failing, dcall, tasks, ddi_entries, profiles,
                   rvars, gvars>>

\* the list of _Compound arrives and is loaded; join, asynchronous and drugs
\* are rebound, and _kegg_ddi sends its requests
\* reading: get_data().keys() is data.keys(); join = and asynchronous = name
\* the one flag async_ _kegg_ddi has, and it joins the identifiers always
CompoundLoaded ==
    /\ dpc = "compound"
    /\ \E response \in Responses(relation, Last(dlog)) :
         LET rows == _kegg_general(response)
             dbs == [entry_dbs EXCEPT !.compound = load("_Compound", rows)]
             given == dcall.drugs # <<>>
         IN  IF load_raises("_Compound", rows)
             THEN /\ dpc' = "raised"
                  /\ UNCHANGED <<entry_dbs, dcall, tasks, dlog>>
             ELSE /\ entry_dbs' = dbs
                  /\ \E drugs \in IF given THEN {dcall.drugs}
                                   ELSE Orderings(DOMAIN dbs.drug) :
                       /\ dcall' = [drugs |-> drugs,
                                    join |-> dcall.join /\ given,
                                    asynchronous |-> ~ given \/ dcall.asynchronous,
                                    absent |-> ~ given]
                       /\ tasks' = Tasks(_kegg_ddi(drugs))
                  /\ dlog' = dlog
                  /\ dpc' = "ddi"
    /\ UNCHANGED <<ddi_table, failing, ddi_entries, profiles, rvars, gvars>>

\* the tasks that may run next: _kegg_ddi_sync chains the fetches in
\* order, _kegg_ddi_async takes them as they complete
Ready ==
    LET pending == { k \in 1..Len(tasks) : tasks[k].pending }
    IN  IF dcall.asynchronous THEN pending
        ELSE { k \in pending : \A j \in pending : k <= j }

\* the tasks whose request is sent and not answered
InFlight == { k \in 1..Len(tasks) : tasks[k].inflight }

\* a transfer that does not wait for the one before it
may_send_always(flying) == TRUE

\* c = curl.Curl(**curl_args) with async_ = False: the transfer blocks the
\* thread, so a fetch starts when no other is in flight
may_send(flying) == flying = {}

\* a task of _kegg_ddi starts: _kegg_general sends its request
DdiSend ==
    /\ dpc = "ddi"
    /\ may_send(InFlight)
    /\ \E k \in Ready \ InFlight :
         /\ tasks' = [tasks EXCEPT ![k].inflight = TRUE]
         /\ dlog' = Append(dlog, tasks[k].request)
    /\ UNCHANGED <<ddi_table, failing, dpc, dcall, entry_dbs, ddi_entries,
                   profiles, rvars, gvars>>

\* an await that resumes only when the transfer gave a result
awaited_when_ok(ts, k, response) ==
    IF response.ok
    THEN [ts EXCEPT ![k].pending = FALSE, ![k].inflight = FALSE]
    ELSE ts

\* the_response = await response: the coroutine of task k is finished,
\* whatever its transfer gave
awaited(ts, k, response) ==
    [ts EXCEPT ![k].pending = FALSE, ![k].inflight = FALSE]

\* the response of a ddi request arrives and its rows are collected; after
\* the last one the loop over the rows builds the profiles
DdiReturn ==
    /\ dpc = "ddi"
    /\ \E k \in InFlight :
         \E response \in DdiResponses(ddi_table, failing, tasks[k].request) :
           LET collected == ddi_entries \o _kegg_general(response)
               after == awaited(tasks, k, response)
           IN  /\ tasks' = after
               /\ ddi_entries' = collected
               /\ IF \E j \in 1..Len(after) : after[j].pending
                  THEN UNCHANGED <<dpc, profiles>>
                  ELSE IF drug_to_drug_raises(collected)
                  THEN /\ dpc' = "raised"
                       /\ UNCHANGED profiles
                  ELSE /\ dpc' = "done"
                       /\ profiles' = drug_to_drug_rows(collected, entry_dbs)
    /\ UNCHANGED <<ddi_table, failing, dcall, entry_dbs, dlog, rvars, gvars>>

NextDdi == DrugToDrug \/ DrugLoaded \/ CompoundLoaded \/ DdiSend \/ DdiReturn

\* one call of drug_to_drug, on an interaction table of the service and at
\* most one identifier whose requests fail
InitDdi ==
    /\ relation = {}
    /\ Idle({}, 0)
    /\ ddi_table \in DdiTables
    /\ failing \in { {} } \cup { {DrugId(n)} : n \in {"00001", "00002"} }
    /\ DdiIdle("idle")
    /\ NoClient

SpecDdi == InitDdi /\ [][NextDdi]_vars

(***************************************************************************)
(* _kegg_ddi_async on a list of identifiers: one fetch for each, collected *)
(* as they complete, and the loop of drug_to_drug over the rows collected. *)
(***************************************************************************)
\* [_kegg_general_async('ddi', drug_id) for drug_id in to_list(drug_ids)],
\* drug_ids a list
_kegg_ddi_async(drug_ids) ==
    [k \in 1..Len(drug_ids) |-> Request("ddi", << drug_ids[k] >>)]

\* the lists of identifiers _kegg_ddi_async is called with
DrugLists ==
    UNION { Orderings(S) :
              S \in SUBSET {DrugId("00001"), DrugId("00002"), DrugId("00003")} }
    \ { <<>> }

\* _kegg_ddi_async is called with a list: its coroutines are created
KeggDdiAsync ==
    /\ dpc = "idle"
    /\ \E drug_ids \in DrugLists :
         /\ dcall' = [drugs |-> drug_ids, join |-> FALSE, asynchronous |-> TRUE,
                      absent |-> FALSE]
         /\ tasks' = Tasks(_kegg_ddi_async(drug_ids))
    /\ dpc' = "ddi"
    /\ UNCHANGED <<ddi_table, failing, entry_dbs, ddi_entries, profiles, dlog,
                   rvars, gvars>>

NextAsync == KeggDdiAsync \/ DdiSend \/ DdiReturn

\* the dict entry_dbs with both lists of the service loaded
LoadedDbs ==
    [drug |-> load("_Drug", CHOOSE o \in
                  Orderings(ServiceRows(load_request("_Drug", "None"))) : TRUE),
     compound |-> load("_Compound", CHOOSE o \in
                  Orderings(ServiceRows(load_request("_Compound", "None"))) : TRUE)]

InitAsync ==
    /\ relation = {}
    /\ Idle({}, 0)
    /\ ddi_table \in DdiTables
    /\ failing \in { {} } \cup { {DrugId(n)} : n \in {"00001", "00002"} }
    /\ dpc = "idle"
    /\ dcall = NoDdiCall
    /\ entry_dbs = LoadedDbs
    /\ tasks = <<>>
    /\ ddi_entries = <<>>
    /\ profiles = EmptyDict
    /\ dlog = <<>>
    /\ NoClient

SpecAsync == InitAsync /\ [][NextAsync]_vars

\* c = curl.Curl(**curl_args) comes back, with a result or without, and the
\* coroutine that sent the request is resumed: DdiReturn as far as tasks
\* goes, where only whether the transfer failed matters.  A step of a
\* behaviour of SpecAsync that changes tasks this way is a step of
\* DdiReturn, and a step of DdiReturn always changes tasks.
TransferEnds ==
    /\ dpc = "ddi"
    /\ \E k \in InFlight :
         LET ids == Range(Split(tasks[k].request.args[1], "+"))
             outcome == IF ids \cap failing # {} THEN FailedResponse
                        ELSE Response(<<>>)
         IN  tasks' = awaited(tasks, k, outcome)

\* the event loop resumes a coroutine that can run, and a blocking transfer
\* ends
FairAsync == SpecAsync /\ WF_vars(DdiSend) /\ WF_tasks(TransferEnds)


(***************************************************************************)
(* One fetch of the raw client, and an entity cache loaded from its rows.  *)
(***************************************************************************)
\* the lines a response may hold
ClientLines ==
    { <<>>,
      Join(<< PathHsa, <<"Cell cycle", " ", "human">> >>, "\t"),
      Join(<< PathMap, <<"Cell cycle">> >>, "\t"),
      PathMap2,
      Join(<< Gene("hsa", "10458"), <<"CDS">>, <<"BAIAP2", ";", " ", "adaptor">> >>,
           "\t"),
      Join(<< Drug1, <<"Aspirin">> >>, "\t") }

\* c.result: None, or up to MaxRows lines and one more
ClientResults ==
    {FailedResponse} \cup { Response(lines) : lines \in SeqsUpTo(ClientLines, MaxRows + 1) }

\* _kegg_general returns the rows of the response
GeneralReturn ==
    /\ gpc = "fetch"
    /\ general_rows' = _kegg_general(curl_result)
    /\ gpc' = "rows"
    /\ UNCHANGED <<curl_result, built, rvars, dvars>>

\* load of a class on these rows
Load ==
    /\ gpc = "rows"
    /\ \E cls \in {"_Gene", "_Pathway", "_Drug"} :
         IF load_raises(cls, general_rows)
         THEN /\ gpc' = "raised"
              /\ UNCHANGED built
         ELSE /\ gpc' = "loaded"
              /\ built' = [cls |-> cls, table |-> load(cls, general_rows)]
    /\ UNCHANGED <<curl_result, general_rows, rvars, dvars>>

NextClient == GeneralReturn \/ Load

InitClient ==
    /\ relation = {}
    /\ Idle({}, 0)
    /\ NoDdi
    /\ curl_result \in ClientResults
    /\ general_rows = <<>>
    /\ built = NoBuilt
    /\ gpc = "fetch"

SpecClient == InitClient /\ [][NextClient]_vars

(***************************************************************************)
(* The properties.                                                         *)
(***************************************************************************)
Count(seq, x) == Cardinality({ k \in 1..Len(seq) : seq[k] = x })

\* the records of the pairs a call has built
Records(c) ==
    UNION { {interactions[c][k][1], interactions[c][k][2]} :
              k \in 1..Len(interactions[c]) }

C2_OnePairPerRow ==
    \A c \in Callers :
        pc[c] = "done" =>
            /\ Len(interactions[c]) = Len(entries[c])
            /\ \A k \in 1..Len(entries[c]) :
                 /\ interactions[c][k][1].id = handle(entries[c][k][1])
                 /\ interactions[c][k][1].type = call[c].source_db
                 /\ interactions[c][k][2].id = handle(entries[c][k][2])
                 /\ interactions[c][k][2].type = call[c].target_db

\* a call that returned two pairs for two different rows
C2_Witness ==
    \E c \in Callers :
        /\ pc[c] = "done"
        /\ Len(entries[c]) = 2
        /\ Len(interactions[c]) = 2
        /\ handle(entries[c][1][1]) # handle(entries[c][2][1])

C7_FailedBuildSurfaces ==
    \A c \in Callers : \A name \in DOMAIN served[c] :
        ~ served[c][name].ok => name \notin DOMAIN data[c] /\ pc[c] = "raised"

IsEmpty(field) == field.kind # "None" /\ field.ids = {}

\* C6: of the requests that build a cache, no two in flight are the same
\* request, and no request is sent by two callers.
C6_OneFetchInFlight ==
    \A x \in inflight : \A y \in inflight :
        /\ x[2].op \in {"list", "conv"} /\ x[2] = y[2] => x = y
        /\ \A c \in Callers : \A d \in Callers :
             \A k \in 1..Len(log[c]) : \A m \in 1..Len(log[d]) :
                 log[c][k].op \in {"list", "conv"} /\ log[c][k] = log[d][m]
                     => c = d

\* C9: in every record, ncbi_gene_ids and uniprot_ids are empty unless the
\* type is gene, and chebi_ids is empty unless the type is drug.
C9_FieldsByType ==
    \A c \in Callers : \A r \in Records(c) \cup {cursor[c].first} :
        /\ r.type # "gene" => IsEmpty(r.ncbi_gene_ids) /\ IsEmpty(r.uniprot_ids)
        /\ r.type # "drug" => IsEmpty(r.chebi_ids)

\* a pair of a gene with NCBI identifiers and a pathway
C9_Witness ==
    \E c \in Callers : \E k \in 1..Len(interactions[c]) :
        /\ interactions[c][k][1].type = "gene"
        /\ interactions[c][k][1].ncbi_gene_ids.ids # {}
        /\ interactions[c][k][2].type = "pathway"

Flipped(S) == { <<p[2], p[1]>> : p \in S }

\* C10: when a call and the call before it are the reverse of each other and
\* their link fetches returned the same rows with the fields exchanged, the
\* (source, target) identifiers of the one are those of the other reversed.
C10_ReverseCalls ==
    \A c \in Callers :
        ( /\ pc[c] = "done"
          /\ prev[c].call = Reverse(call[c])
          /\ Range(entries[c]) = Flipped(prev[c].rows) )
        => IdPairs(interactions[c]) = Flipped(prev[c].ids)

\* pathway_to_gene after gene_to_pathway, on two link rows
C10_Witness ==
    \E c \in Callers :
        /\ pc[c] = "done"
        /\ call[c].source_db = "pathway" /\ call[c].target_db = "gene"
        /\ prev[c].call = Reverse(call[c])
        /\ Range(entries[c]) = Flipped(prev[c].rows)
        /\ Cardinality(prev[c].ids) = 2
        /\ Cardinality(IdPairs(interactions[c])) = 2

(***************************************************************************)
(* The conversion caches and the interaction profiles.                     *)
(***************************************************************************)
\* the field of a conv row, as _kegg_conv keeps it
Kept(field, split) == IF split THEN Split(field, ":")[2] ELSE field

\* C8: after a conversion cache is built from the rows of a response, the
\* cache maps every key to the set of all the values those rows give the key
\* and to nothing else: rows of one key accumulate, and no value is
\* overwritten or comes from rows of another fetch.
C8_TableIsRowsOfItsFetch ==
    \A c \in Callers :
      \A name \in {"ncbi", "uniprot", "chebi"} \cap DOMAIN data[c] :
        LET rows == served[c][name].rows
            source_split == name = "chebi"
            table == table_of(data[c][name], _table)
            keys == { Kept(r[1], source_split) : r \in rows }
        IN  \A key \in keys \cup DOMAIN table :
              table_get(table, key).ids =
                  { Kept(r[2], TRUE) :
                      r \in { q \in rows : Kept(q[1], source_split) = key } }

\* the rows of one owner, in the order of the rows
RECURSIVE OwnedBy(_, _)
OwnedBy(rows, owner) ==
    IF rows = <<>> THEN <<>>
    ELSE (IF Last(Split(Head(rows)[1], ":")) = owner
          THEN <<Head(rows)>> ELSE <<>>)
         \o OwnedBy(Tail(rows), owner)

HasLabel(field, label) ==
    \E k \in 1..Len(Split(field, ",")) : Split(field, ",")[k] = <<label>>

\* C4: when drug_to_drug returns, there is one profile for each distinct
\* owner identifier among the rows fetched; its interactions are the rows of
\* that owner in row order, each naming the partner of the row, marked a
\* contraindication iff CI is among the comma-separated labels of the row and
\* a precaution iff P is.
C4_ProfilesFollowRows ==
    dpc = "done" =>
      LET owners == { Last(Split(ddi_entries[k][1], ":")) :
                        k \in 1..Len(ddi_entries) }
      IN  /\ DOMAIN profiles = owners
          /\ \A owner \in owners :
                LET mine == OwnedBy(ddi_entries, owner)
                    got == profiles[owner].interactions
                IN  /\ Len(got) = Len(mine)
                    /\ \A k \in 1..Len(mine) :
                          /\ got[k].id = Last(Split(mine[k][2], ":"))
                          /\ got[k].contraindication = HasLabel(mine[k][3], "CI")
                          /\ got[k].precaution = HasLabel(mine[k][3], "P")

\* a call has returned the profile of D00001 built from its two rows, the
\* first labelled CI,P and the second with no label
C4_Witness ==
    /\ dpc = "done"
    /\ ddi_entries = << << Drug1, Drug2, <<"CI", ",", "P">> >>,
                        << Drug1, Compound3, <<>> >> >>
    /\ DOMAIN profiles = {DrugId("00001")}
    /\ Len(profiles[DrugId("00001")].interactions) = 2
    /\ profiles[DrugId("00001")].interactions[1].contraindication
    /\ profiles[DrugId("00001")].interactions[1].precaution
    /\ ~ profiles[DrugId("00001")].interactions[2].contraindication
    /\ ~ profiles[DrugId("00001")].interactions[2].precaution

\* C5: a call that fetches the interactions of its identifiers separately
\* and concurrently, where the fetch of exactly one identifier fails, returns
\* without raising, and returns for every other identifier the profile built
\* from the rows the service holds for it.
C5_OneFailureKeepsTheOthers ==
    ( /\ dpc \in {"done", "raised"}
      /\ ~ dcall.join
      /\ dcall.asynchronous
      /\ Cardinality(Range(dcall.drugs) \cap failing) = 1
      /\ ~ drug_to_drug_raises(DdiAnswer(ddi_table, Range(dcall.drugs) \ failing)) )
    => /\ dpc = "done"
       /\ \A drug \in Range(dcall.drugs) \ failing :
             LET rows == DdiAnswer(ddi_table, {drug})
             IN  rows # <<>> =>
                   /\ drug \in DOMAIN profiles
                   /\ profiles[drug] = drug_to_drug_rows(rows, entry_dbs)[drug]

\* the rows of the fetches of a list of identifiers, in the order of the list
RECURSIVE InListOrder(_)
InListOrder(drug_ids) ==
    IF drug_ids = <<>> THEN <<>>
    ELSE _kegg_general(CHOOSE response \in
             DdiResponses(ddi_table, failing, Request("ddi", << Head(drug_ids) >>)) :
                 TRUE)
         \o InListOrder(Tail(drug_ids))

C15_OneFetchPerDrug ==
    dcall.absent /\ dpc \in {"done", "raised"} =>
        /\ Range(dcall.drugs) = DOMAIN entry_dbs.drug
        /\ \A drug \in DOMAIN entry_dbs.drug :
              Count(dlog, Request("ddi", << drug >>)) = 1
        /\ \A k \in 1..Len(dlog) :
              dlog[k].op = "ddi" => "+" \notin Range(dlog[k].args[1])
\* C18 as stated: the name and the type of a profile are those of the first
\* row of its owner; later rows of the owner add an interaction and leave
\* them.
C18_NameTypeOfFirstRow ==
    dpc = "done" =>
        \A owner \in DOMAIN profiles :
            LET mine == OwnedBy(ddi_entries, owner)
                first == partner(Head(mine)[1], entry_dbs)
            IN  /\ profiles[owner].type = first.type
                /\ profiles[owner].name = first.name
                /\ Len(profiles[owner].interactions) = Len(mine)

\* C18, amended: the name and the type of a profile are those of the last
\* row of its owner; every row of the owner adds an interaction and sets
\* them again.
C18_NameTypeOfLastRow ==
    dpc = "done" =>
        \A owner \in DOMAIN profiles :
            LET mine == OwnedBy(ddi_entries, owner)
                last == partner(Last(mine)[1], entry_dbs)
            IN  /\ profiles[owner].type = last.type
                /\ profiles[owner].name = last.name
                /\ Len(profiles[owner].interactions) = Len(mine)

\* a profile of two rows, the first tagged a drug and the second a compound
C18_Witness ==
    /\ dpc = "done"
    /\ Len(ddi_entries) = 2
    /\ ddi_entries[1][1] = Drug1
    /\ ddi_entries[2][1] = <<"cpd", ":", "D", "00001">>
    /\ profiles[DrugId("00001")].type = "compound"
    /\ Len(profiles[DrugId("00001")].interactions) = 2
\* the lines that are not blank, in their order
RECURSIVE NonBlank(_)
NonBlank(lines) ==
    IF lines = <<>> THEN <<>>
    ELSE (IF Head(lines) = <<>> THEN <<>> ELSE << Head(lines) >>)
         \o NonBlank(Tail(lines))

\* C14: a fetch of the raw client returns rows and never raises; a failed
\* or empty response gives no row, and otherwise there is one row for each
\* line that is not blank, in the order of the lines, whose fields are the
\* parts of the line between its tabs.
C14_RowsOfTheLines ==
    gpc # "fetch" =>
        LET kept == NonBlank(curl_result.lines)
        IN  /\ ~ curl_result.ok => general_rows = <<>>
            /\ Len(general_rows) = Len(kept)
            /\ \A k \in 1..Len(kept) :
                  /\ Join(general_rows[k], "\t") = kept[k]
                  /\ \A j \in 1..Len(general_rows[k]) :
                        "\t" \notin Range(general_rows[k][j])

\* a response with a blank line between two lines gave two rows
C14_Witness ==
    /\ gpc = "rows"
    /\ Len(curl_result.lines) = 3
    /\ curl_result.lines[2] = <<>>
    /\ Len(general_rows) = 2
    /\ Len(general_rows[1]) = 3

IsDigitRun(token) == token \in DigitRuns

\* the key the claim gives a raw pathway identifier
MapKey(raw) == <<"map">> \o SelectSeq(raw, IsDigitRun)

\* C17: the pathway cache loaded from rows has for keys 'map' followed by
\* the digits of the raw identifiers, whatever their prefix, and for the
\* value of a key the name of the last row that gives the key.
C17_PathwayKeys ==
    gpc = "loaded" /\ built.cls = "_Pathway" =>
        /\ DOMAIN built.table =
              { MapKey(general_rows[k][1]) : k \in 1..Len(general_rows) }
        /\ \A k \in 1..Len(general_rows) :
              (\A j \in (k + 1)..Len(general_rows) :
                   MapKey(general_rows[j][1]) # MapKey(general_rows[k][1]))
              => built.table[MapKey(general_rows[k][1])] = general_rows[k][2]

\* path:hsa04110 then path:map04110: one key, map04110, with the second name
C17_Witness ==
    /\ gpc = "loaded"
    /\ built.cls = "_Pathway"
    /\ Len(general_rows) = 2
    /\ general_rows[1][1] = PathHsa
    /\ general_rows[2][1] = PathMap
    /\ DOMAIN built.table = { <<"map", "04110">> }
    /\ built.table[<<"map", "04110">>] = <<"Cell cycle">>
\* C16: a call sends exactly one link request, and it is the first request
\* of the call: link, then the target, then the source, where gene stands
\* as the organism code and every other kind as itself.
C16_OneLinkFetch ==
    \A c \in Callers :
        pc[c] \notin {"off", "idle"} =>
            LET Arg(kind) == IF kind = "gene" THEN call[c].organism ELSE kind
            IN  /\ log[c][1] = Request("link", << Arg(call[c].target_db),
                                                  Arg(call[c].source_db) >>)
                /\ Cardinality({ k \in 1..Len(log[c]) : log[c][k].op = "link" }) = 1

\* gene_to_pathway('hsa') returned pairs after asking link/pathway/hsa
C16_Witness ==
    \E c \in Callers :
        /\ pc[c] = "done"
        /\ call[c].source_db = "gene" /\ call[c].target_db = "pathway"
        /\ log[c][1] = [op |-> "link", args |-> <<"pathway", "hsa">>]
        /\ Len(log[c]) > 1
        /\ interactions[c] # <<>>
\* C19: a call whose link rows hold a row of fewer than two fields still
\* returns: the row is dropped, and there is a pair for each row of two
\* fields, in the order of the rows.
C19_ShortRowDropped ==
    \A c \in Callers :
        ( /\ pc[c] \in {"done", "raised"}
          /\ \E k \in 1..Len(entries[c]) : Len(entries[c][k]) < 2 )
        => /\ pc[c] = "done"
           /\ Len(interactions[c]) =
                 Cardinality({ k \in 1..Len(entries[c]) : Len(entries[c][k]) >= 2 })
           /\ \A k \in 1..Len(interactions[c]) :
                 \E j \in k..Len(entries[c]) :
                     /\ Len(entries[c][j]) >= 2
                     /\ interactions[c][k][1].id = handle(entries[c][j][1])
                     /\ interactions[c][k][2].id = handle(entries[c][j][2])
\* what get answers on a cache, for every key
Observed(inst, shared) == table_of(inst, shared)

\* C12: a step leaves the contents of every cache of a call, as get answers
\* them, as they were, whatever the step does, the construction of another
\* cache included.
C12_CachesImmutable ==
    [][ \A c \in Callers :
          \A name \in DOMAIN data[c] \cap DOMAIN data'[c] :
              Observed(data'[c][name], _table') = Observed(data[c][name], _table)
      ]_vars

\* the (key, value) pairs of the conv rows the service holds for an organism
ConvPairs(organism) ==
    { << r[1], Kept(r[2], TRUE) >> :
        r \in ServiceRows(conv_request("_KeggToNcbi", organism))
               \cup ServiceRows(conv_request("_KeggToUniprot", organism)) }

\* C13: the gene conversion caches of a call hold no entry that comes only
\* from the conv rows of another organism than the one of the call.
C13_NoEntryOfAnotherScope ==
    \A c \in Callers :
      \A name \in {"ncbi", "uniprot"} \cap DOMAIN data[c] :
        LET table == Observed(data[c][name], _table)
        IN  \A key \in DOMAIN table : \A value \in table[key] :
              \A other \in ScopedOrganisms \ {call[c].organism} :
                  << key, value >> \in ConvPairs(other)
                      => << key, value >> \in ConvPairs(call[c].organism)

\* the identifiers the conv rows served to a call for a cache give a gene
ConvIdsOf(c, name, id_) ==
    IF name \in DOMAIN served[c]
    THEN { Kept(r[2], TRUE) : r \in { q \in served[c][name].rows : q[1] = id_ } }
    ELSE {}

\* C21: in every gene record a call has built, the ncbi_gene_ids are among
\* the identifiers the KEGG-to-NCBI conv rows of the call give that gene, and
\* the uniprot_ids among those the KEGG-to-UniProt conv rows give it.
C21_IdsOfTheirOwnPair ==
    \A c \in Callers : \A rec \in Records(c) :
        rec.type = "gene" =>
            /\ rec.ncbi_gene_ids.ids \subseteq ConvIdsOf(c, "ncbi", rec.id)
            /\ rec.uniprot_ids.ids \subseteq ConvIdsOf(c, "uniprot", rec.id)

\* C22: a pathway record resolved from a link field that is the identifier
\* of a row of the pathway list served to the call carries the name of that
\* row, whatever the prefix of the identifier.
C22_PathwayNameOfItsListRow ==
    \A c \in Callers :
      \A k \in 1..Len(interactions[c]) : \A side \in 1..2 :
        LET rec == interactions[c][k][side]
            entry == entries[c][k][side]
        IN  (rec.type = "pathway" /\ "pathway" \in DOMAIN served[c]) =>
              \A row \in served[c]["pathway"].rows :
                  row[1] = entry => rec.name = Str(proc_value("_Pathway", row))

====
